---------------------------- MODULE Spec2Model ----------------------------
(***************************************************************************)
(* Text normalisation and phrase matching of re_modeling:                  *)
(*   text_utils.remove_accents, text_utils.preprocess_text,                *)
(*   address_utils.correct_spelling,                                       *)
(*   dataframe_utils.extract_and_store_patterns,                           *)
(*   dataframe_utils.pair_values_to_key, dataframe_utils.fill_na_df.       *)
(*                                                                         *)
(* A Python str is a sequence of characters.  A character is a TLA+ string:*)
(* an ASCII character stands for itself, a non-ASCII character has a name  *)
(* ("ntilde" is U+00F1, "dsC" is U+2102 DOUBLE-STRUCK CAPITAL C, ...).     *)
(***************************************************************************)
EXTENDS Integers, Sequences, FiniteSets, TLC

VARIABLES
    pc,                  \* the function a behaviour runs and the position in it
    input_str,           \* remove_accents: argument
    protected_chars,     \* remove_accents: argument
    only_ascii,          \* remove_accents: return value
    refolded,            \* remove_accents applied to its own return value
    text,                \* preprocess_text / find_earliest_pattern: argument
    ignore_prepositions, \* preprocess_text: argument ({} is None or an empty list)
    processed_text,      \* preprocess_text(text, ignore_prepositions)
    processed_plain,     \* preprocess_text(text, None)
    street_name,         \* correct_spelling: argument
    misspellings,        \* correct_spelling: argument, <<key, correction>> pairs
                         \* in the dict's insertion order
    sorted_misspellings, \* correct_spelling: misspellings after line 38
    words,               \* correct_spelling: tokens of the normalised name
    corrected_words,     \* correct_spelling: items emitted so far
    i,                   \* correct_spelling: cursor, counted from 0
    found,               \* correct_spelling: outcome of the last key search
    misspelled,          \* correct_spelling: key the last search stopped at
    corrected,           \* correct_spelling: return value
    patterns,            \* extract_and_store_patterns: argument (a list)
    composed,            \* extract_and_store_patterns: argument
    compiled_patterns,   \* <<match key, full_name>> pairs in the dict's order;
                         \* the match key stands for the compiled regex
    searched,            \* number of regex.search calls made for the row
    target,              \* the row's value in df[target_var]
    raised,              \* exception raised while the row was processed
    input_dict,          \* pair_values_to_key: argument, <<key, values>> pairs
                         \* in the dict's insertion order
    sort_keys,           \* pair_values_to_key: argument
    output_dict,         \* pair_values_to_key(input_dict, sort_keys)
    output_other,        \* pair_values_to_key(input_dict, not sort_keys)
    df,                  \* fill_na_df: argument, column name -> row label -> cell;
                         \* the function assigns to its columns in place
    df_passed,           \* fill_na_df: df as it was when the call was made
    df2,                 \* fill_na_df: argument
    target_columns,      \* fill_na_df: argument
    filler_columns,      \* fill_na_df: argument (NoColumns is None)
    pair,                \* fill_na_df: position of the loop in the zipped lists
    error                \* fill_na_df: exception raised, "" for none

foldVars == <<input_str, protected_chars, only_ascii, refolded>>

preVars == <<text, ignore_prepositions, processed_text, processed_plain>>

csVars == <<street_name, misspellings, sorted_misspellings, words,
            corrected_words, i, found, misspelled, corrected>>

exVars == <<patterns, composed, compiled_patterns, searched, target, raised>>

pairVars == <<input_dict, sort_keys, output_dict, output_other>>

fillVars ==
    <<df, df_passed, df2, target_columns, filler_columns, pair, error>>

vars == <<pc, foldVars, preVars, csVars, exVars, pairVars, fillVars>>

-----------------------------------------------------------------------------
(* Characters *)

Alpha == <<"a","b","c","d","e","f","g","h","i","j","k","l","m",
           "n","o","p","q","r","s","t","u","v","w","x","y","z">>

AlphaUp == <<"A","B","C","D","E","F","G","H","I","J","K","L","M",
             "N","O","P","Q","R","S","T","U","V","W","X","Y","Z">>

DigitChars == <<"0","1","2","3","4","5","6","7","8","9">>

Range(f) == {f[x] : x \in DOMAIN f}

IndexOf(f, c) == CHOOSE x \in DOMAIN f : f[x] = c

LowerLetters == Range(Alpha)

UpperLetters == Range(AlphaUp)

\* The characters of the ASCII range that the model uses.
AsciiChars ==
    LowerLetters \cup UpperLetters \cup Range(DigitChars)
        \cup {" ", "tab", ".", "-", "/", ",", "'", "_", "grave", "[", "]"}

\* str.lower() of one character.  U+2102 has no lowercase mapping.
Lower(c) ==
    IF c \in UpperLetters THEN Alpha[IndexOf(AlphaUp, c)]
    ELSE IF c = "Ntilde" THEN "ntilde"
    ELSE IF c = "Udiaeresis" THEN "udiaeresis"
    ELSE IF c = "Aacute" THEN "aacute"
    ELSE c

\* str.upper() of one character.
Upper(c) ==
    IF c \in LowerLetters THEN AlphaUp[IndexOf(Alpha, c)]
    ELSE IF c = "ntilde" THEN "Ntilde"
    ELSE IF c = "udiaeresis" THEN "Udiaeresis"
    ELSE IF c = "aacute" THEN "Aacute"
    ELSE c

\* unicodedata.normalize("NFKD", c) of one character.
Nfkd(c) ==
    CASE c = "aacute"     -> <<"a", "comb_acute">>
      [] c = "Aacute"     -> <<"A", "comb_acute">>
      [] c = "ntilde"     -> <<"n", "comb_tilde">>
      [] c = "Ntilde"     -> <<"N", "comb_tilde">>
      [] c = "udiaeresis" -> <<"u", "comb_diaeresis">>
      [] c = "Udiaeresis" -> <<"U", "comb_diaeresis">>
      [] c = "ccedilla"   -> <<"c", "comb_cedilla">>
      [] c = "ordm"       -> <<"o">>
      [] c = "dsC"        -> <<"C">>
      [] c = "acute"      -> <<" ", "comb_acute">>
      [] OTHER            -> <<c>>

\* \w of a Python str pattern: alphanumerics and the underscore.
WordChars ==
    LowerLetters \cup UpperLetters \cup Range(DigitChars) \cup {"_"}
        \cup {"aacute", "Aacute", "ntilde", "Ntilde", "udiaeresis",
              "Udiaeresis", "ccedilla", "ordm", "dsC", "cyr"}

IsWord(c) == c \in WordChars

\* \s, and the characters str.split() and str.strip() treat as whitespace.
IsSpace(c) == c \in {" ", "tab"}

-----------------------------------------------------------------------------
(* str helpers *)

LowerStr(s) == [k \in 1..Len(s) |-> Lower(s[k])]

UpperStr(s) == [k \in 1..Len(s) |-> Upper(s[k])]

RECURSIVE ConcatRange(_, _, _)
ConcatRange(parts, lo, hi) ==
    IF lo > hi THEN <<>>
    ELSE IF lo = hi THEN parts[lo]
    ELSE LET mid == (lo + hi) \div 2
         IN  ConcatRange(parts, lo, mid) \o ConcatRange(parts, mid + 1, hi)

\* "".join(parts)
Concat(parts) == ConcatRange(parts, 1, Len(parts))

\* s.startswith(pat, k-1)
StartsAt(s, pat, k) ==
    /\ k + Len(pat) - 1 <= Len(s)
    /\ \A j \in 1..Len(pat) : s[k + j - 1] = pat[j]

\* s.find(pat, k-1) + 1, or 0 when pat does not occur from position k on
Find(s, pat, k) ==
    LET hits == {j \in k..Len(s) : StartsAt(s, pat, j)}
    IN  IF hits = {} THEN 0 ELSE CHOOSE j \in hits : \A h \in hits : j <= h

RECURSIVE ReplaceFrom(_, _, _, _)
ReplaceFrom(s, old, new, k) ==
    LET j == Find(s, old, k)
    IN  IF j = 0 THEN SubSeq(s, k, Len(s))
        ELSE SubSeq(s, k, j - 1) \o new \o ReplaceFrom(s, old, new, j + Len(old))

\* s.replace(old, new) for a non-empty old: leftmost non-overlapping occurrences.
Replace(s, old, new) == ReplaceFrom(s, old, new, 1)

RECURSIVE DecimalDigits(_)
\* str(n) for n >= 0
DecimalDigits(n) ==
    IF n < 10 THEN <<DigitChars[n + 1]>>
    ELSE DecimalDigits(n \div 10) \o <<DigitChars[(n % 10) + 1]>>

-----------------------------------------------------------------------------
(* text_utils.remove_accents *)

DefaultProtected == <<"ntilde", "udiaeresis", "degree", "ordm">>

\* f"PLACEHOLDER_{i}", the index counted from 0
Placeholder(index) ==
    <<"P","L","A","C","E","H","O","L","D","E","R","_">> \o DecimalDigits(index)

\* Faulty variant: the protected characters are not swapped for placeholders.
SubstituteNothing(s, prot, k) == s

RECURSIVE Substitute(_, _, _)
\* The first loop: protected_chars[k..] replaced in turn by their placeholders.
Substitute(s, prot, k) ==
    IF k > Len(prot) THEN s
    ELSE LET replaced == Replace(s, <<prot[k]>>, Placeholder(k - 1))
         IN  \* nothing occurs in an empty string
             IF replaced = <<>> THEN <<>> ELSE Substitute(replaced, prot, k + 1)

NfkdStr(s) == Concat([k \in 1..Len(s) |-> Nfkd(s[k])])

\* .encode("ASCII", "ignore").decode("utf-8")
EncodeAscii(s) == SelectSeq(s, LAMBDA c : c \in AsciiChars)

RECURSIVE Restore(_, _, _)
\* The second loop: placeholders replaced back, in the order they were made.
Restore(s, prot, k) ==
    IF k > Len(prot) THEN s
    ELSE LET replaced == Replace(s, Placeholder(k - 1), <<prot[k]>>)
         IN  \* nothing occurs in an empty string
             IF replaced = <<>> THEN <<>> ELSE Restore(replaced, prot, k + 1)

remove_accents(s, prot) ==
    Restore(EncodeAscii(NfkdStr(Substitute(LowerStr(s), prot, 1))), prot, 1)

-----------------------------------------------------------------------------
(* text_utils.preprocess_text *)

\* known_abbreviations, in the dict's insertion order
KnownAbbreviations ==
    << <<(<<"s",".","a",".","r",".">>), <<"s","a","r">> >>,
       <<(<<"d","r",".">>), <<"d","o","c","t","o","r">> >>,
       <<(<<"r",".">>), <<"r","e","p","u","b","l","i","c","a">> >> >>

RECURSIVE ExpandAbbreviations(_, _)
ExpandAbbreviations(s, k) ==
    IF k > Len(KnownAbbreviations) THEN s
    ELSE ExpandAbbreviations(
             Replace(s, KnownAbbreviations[k][1], KnownAbbreviations[k][2]),
             k + 1)

\* re.sub(r"[-./]", " ", s)
PunctuationToSpace(s) ==
    [k \in 1..Len(s) |-> IF s[k] \in {"-", ".", "/"} THEN " " ELSE s[k]]

\* re.sub(r"\s+", " ", s): the first character of a run of whitespace becomes
\* a space, the rest of the run goes.
CollapseSpaces(s) ==
    LET marked == [k \in 1..Len(s) |->
                     IF ~IsSpace(s[k]) THEN s[k]
                     ELSE IF k > 1 /\ IsSpace(s[k - 1]) THEN "(dropped)"
                     ELSE " "]
    IN  SelectSeq(marked, LAMBDA c : c # "(dropped)")

\* The positions where a maximal run of non-whitespace starts.
WordStarts(s) ==
    {k \in 1..Len(s) : ~IsSpace(s[k]) /\ (k = 1 \/ IsSpace(s[k - 1]))}

\* The last position of the run of non-whitespace that starts at b.
WordEnd(s, b) ==
    CHOOSE e \in b..Len(s) :
        /\ \A j \in b..e : ~IsSpace(s[j])
        /\ (e = Len(s) \/ IsSpace(s[e + 1]))

\* s.split()
Split(s) ==
    LET starts == WordStarts(s)
    IN  [n \in 1..Cardinality(starts) |->
            LET b == CHOOSE k \in starts :
                         Cardinality({j \in starts : j < k}) = n - 1
            IN  SubSeq(s, b, WordEnd(s, b))]

\* " ".join(parts)
Join(parts) ==
    Concat([n \in 1..Len(parts) |->
               IF n = 1 THEN parts[n] ELSE <<" ">> \o parts[n]])

\* Faulty variant: nothing is stripped.
StripNothing(s) == s

\* s.strip()
Strip(s) ==
    LET solid == {k \in 1..Len(s) : ~IsSpace(s[k])}
    IN  IF solid = {} THEN <<>>
        ELSE SubSeq(s, CHOOSE k \in solid : \A j \in solid : k <= j,
                       CHOOSE k \in solid : \A j \in solid : k >= j)

\* word.lower() not in ignore_prepositions
KeepWord(word, prepositions) == LowerStr(word) \notin prepositions

\* The branch taken when ignore_prepositions is truthy.
DropPrepositions(s, prepositions) ==
    Join(SelectSeq(Split(s), LAMBDA word : KeepWord(word, prepositions)))

preprocess_text(s, prepositions) ==
    LET folded    == remove_accents(s, DefaultProtected)
        expanded  == ExpandAbbreviations(folded, 1)
        collapsed == CollapseSpaces(PunctuationToSpace(expanded))
    IN  Strip(IF prepositions # {}
              THEN DropPrepositions(collapsed, prepositions)
              ELSE collapsed)

-----------------------------------------------------------------------------
(* address_utils.correct_spelling *)

\* \b between s[p-1] and s[p]; outside the string counts as a non-word character
IsBoundary(s, p) ==
    LET before == p > 1 /\ IsWord(s[p - 1])
        after  == p <= Len(s) /\ IsWord(s[p])
    IN  before # after

\* [\w\'-]
InToken(c) == IsWord(c) \/ c \in {"'", "-"}

\* The last position of the greedy [\w\'-]+ that starts at p.
TokenEnd(s, p) ==
    CHOOSE e \in p..Len(s) :
        /\ \A j \in p..e : InToken(s[j])
        /\ (e = Len(s) \/ ~InToken(s[e + 1]))

RECURSIVE FindAllFrom(_, _)
FindAllFrom(s, p) ==
    IF p > Len(s) THEN <<>>
    ELSE IF IsBoundary(s, p) /\ InToken(s[p])
         THEN <<SubSeq(s, p, TokenEnd(s, p))>> \o FindAllFrom(s, TokenEnd(s, p) + 1)
         ELSE IF s[p] = "."
              THEN << <<".">> >> \o FindAllFrom(s, p + 1)
              ELSE FindAllFrom(s, p + 1)

\* re.findall(r"\b[\w\'-]+|\.", s)
FindAll(s) == FindAllFrom(s, 1)

\* Lines 33-35: lowercase, both accent marks to the apostrophe, fold.
NormalizeStreet(s) ==
    remove_accents(
        Replace(Replace(LowerStr(s), <<"acute">>, <<"'">>), <<"grave">>, <<"'">>),
        DefaultProtected)

\* Faulty variant: the dictionary is scanned in its own order.
Unsorted(items) == items

\* sorted(items, key=lambda item: len(item[0]), reverse=True): by the number of
\* characters of the key, longest first; the sort is stable.
SortedByKeyLength(items) ==
    LET rank(n) ==
            Cardinality({m \in 1..Len(items) :
                            \/ Len(items[m][1]) > Len(items[n][1])
                            \/ (Len(items[m][1]) = Len(items[n][1]) /\ m < n)}) + 1
    IN  [r \in 1..Len(items) |-> items[CHOOSE n \in 1..Len(items) : rank(n) = r]]

\* words[i : i + n] with Python's clamping of the slice
Slice(ws, from, n) ==
    SubSeq(ws, from + 1, IF from + n > Len(ws) THEN Len(ws) ELSE from + n)

\* Line 54
PhraseToCheck(ws, from, n) ==
    Replace(Join(Slice(ws, from, n)), <<" ", ".">>, <<".">>)

\* Line 52
MisspelledLen(key) == Len(FindAll(key))

\* Faulty variant: the cursor moves one token on after a replacement.
AdvanceOne(from, key) == from + 1

\* Line 58: i += misspelled_len
Advance(from, key) == from + MisspelledLen(key)

\* Line 55
KeyMatches(key, ws, from) ==
    LET misspelled_len == MisspelledLen(key)
    IN  /\ from + misspelled_len <= Len(ws)
        /\ PhraseToCheck(ws, from, misspelled_len) = key

\* The entries of the sorted list at which the inner loop would stop.
MatchingEntries(items, ws, from) ==
    {n \in 1..Len(items) : KeyMatches(items[n][1], ws, from)}

-----------------------------------------------------------------------------
(* dataframe_utils.extract_and_store_patterns *)

\* np.nan: the value of a missing cell, which is no str
NaN == <<"NaN">>

\* Python's None, for earliest_match
None == -1

\* Faulty variant: a key that is already there keeps its value.
KeepFirst(d, key, value) ==
    IF \E n \in 1..Len(d) : d[n][1] = key THEN d
    ELSE Append(d, <<key, value>>)

\* d[key] = value on a dict kept as <<key, value>> pairs in insertion order
DictSet(d, key, value) ==
    IF \E n \in 1..Len(d) : d[n][1] = key
    THEN [n \in 1..Len(d) |-> IF d[n][1] = key THEN <<key, value>> ELSE d[n]]
    ELSE Append(d, <<key, value>>)

RECURSIVE PatternToFullName(_, _, _)
\* Line 81: {pattern.lower(): pattern for pattern in patterns}
PatternToFullName(ps, n, d) ==
    IF n > Len(ps) THEN d
    ELSE PatternToFullName(ps, n + 1, DictSet(d, LowerStr(ps[n]), ps[n]))

Separator == <<" ", "-", " ">>

\* Faulty variant: the pattern is never cut at the separator.
WholePattern(pattern, is_composed) == pattern

\* Line 85: pattern.split(" - ")[0] if composed else pattern
PatternPart(pattern, is_composed) ==
    IF is_composed /\ Find(pattern, Separator, 1) # 0
    THEN SubSeq(pattern, 1, Find(pattern, Separator, 1) - 1)
    ELSE pattern

RECURSIVE CompileFrom(_, _, _, _, _)
\* Lines 83-90.  re.compile gives equal (and equally hashed) pattern objects
\* for equal pattern text and flags, so the dict is keyed by processed_pattern.
CompileFrom(names, n, is_composed, prepositions, d) ==
    IF n > Len(names) THEN d
    ELSE CompileFrom(names, n + 1, is_composed, prepositions,
             DictSet(d,
                     preprocess_text(PatternPart(names[n][1], is_composed),
                                     prepositions),
                     names[n][2]))

\* Two characters that re.IGNORECASE treats as the same
SameIgnoringCase(c, d) == Lower(c) = Lower(d)

\* Whether \b<key>\b matches s with its first character at position p.
MatchesAt(key, s, p) ==
    /\ p + Len(key) - 1 <= Len(s)
    /\ IsBoundary(s, p)
    /\ IsBoundary(s, p + Len(key))
    /\ \A j \in 1..Len(key) : SameIgnoringCase(s[p + j - 1], key[j])

\* regex.search(s).start() for the regex \b<key>\b, None without a match
SearchStart(key, s) ==
    LET starts == {p \in 1..(Len(s) + 1) : MatchesAt(key, s, p)}
    IN  IF starts = {} THEN None
        ELSE (CHOOSE p \in starts : \A q \in starts : p <= q) - 1

\* Faulty variant: every match replaces the one kept so far.
AlwaysEarlier(start, earliest_start) == TRUE

\* Line 103
IsEarlier(start, earliest_start) ==
    earliest_start = None \/ start < earliest_start

RECURSIVE EarliestFrom(_, _, _, _, _)
\* Lines 100-107: the loop over compiled_patterns and the return.
\* earliest_match_name is None exactly when earliest_match is.
EarliestFrom(compiled, s, n, earliest_start, earliest_match_name) ==
    IF n > Len(compiled)
    THEN (IF earliest_start # None THEN earliest_match_name ELSE NaN)
    ELSE LET start == SearchStart(compiled[n][1], s)
         IN  IF start # None /\ IsEarlier(start, earliest_start)
             THEN EarliestFrom(compiled, s, n + 1, start, compiled[n][2])
             ELSE EarliestFrom(compiled, s, n + 1, earliest_start,
                               earliest_match_name)

\* Faulty variant: no cell counts as missing.
NeverNa(value) == FALSE

\* pd.isna
IsNa(value) == value = NaN

\* Lines 112-114
UpperIfStr(value) == IF value # NaN THEN UpperStr(value) ELSE value

-----------------------------------------------------------------------------
(* dataframe_utils.pair_values_to_key *)

RECURSIVE RegisterValues(_, _, _, _)
\* Lines 140-141
RegisterValues(d, key, values, n) ==
    IF n > Len(values) THEN d
    ELSE RegisterValues(DictSet(d, LowerStr(values[n]), key), key, values, n + 1)

RECURSIVE RegisterFrom(_, _, _)
\* Lines 137-141
RegisterFrom(input, n, d) ==
    IF n > Len(input) THEN d
    ELSE RegisterFrom(input, n + 1,
             RegisterValues(DictSet(d, LowerStr(input[n][1]), input[n][1]),
                            input[n][1], input[n][2], 1))

\* Lines 136-148.  sorted(output_dict, key=len, reverse=True) is the stable
\* descending sort by the length of the name.
pair_values_to_key(input, sorting) ==
    LET registered == RegisterFrom(input, 1, <<>>)
    IN  IF sorting THEN SortedByKeyLength(registered) ELSE registered

-----------------------------------------------------------------------------
(* dataframe_utils.fill_na_df *)

\* None as the value of filler_columns
NoColumns == <<<<"None">>>>

\* frame.columns
Columns(frame) == DOMAIN frame

\* pd.notna
NotNa(value) == value # NaN

\* Lines 188-193: the column df[target_col] after the assignment.  The two
\* frames have the same row labels, so df2.loc[row.name, filler_col] is there.
FilledColumn(frame, frame2, target_col, filler_col) ==
    [row \in DOMAIN frame[target_col] |->
        IF NotNa(frame[target_col][row]) THEN frame[target_col][row]
        ELSE frame2[filler_col][row]]

-----------------------------------------------------------------------------
(* Bounded inputs *)

MaxTextLen == 3

MaxStreetLen == 3

MaxEntries == 2

\* Cap on the items emitted by one call, so that a scan that does not advance
\* has finitely many states.
MaxEmitted == 5

StreetAlphabet == {"a", "b", " ", "."}

\* Candidate dictionary keys.
KeyPool ==
    { <<>>, <<"a">>, <<"a"," ","b">>, <<"a",".">>, <<"a"," ","a">>,
      <<".","a">> }

\* The correction registered for a key: the key between brackets.
CorrectionOf(key) == <<"[">> \o key \o <<"]">>

RECURSIVE DistinctListsUpTo(_, _)
\* Every list of at most n distinct elements of the pool.
DistinctListsUpTo(pool, n) ==
    IF n = 0 THEN {<<>>}
    ELSE LET shorter == DistinctListsUpTo(pool, n - 1)
         IN  shorter \cup
             UNION {{Append(ks, key) : key \in pool \ Range(ks)} :
                       ks \in shorter}

Dictionaries ==
    {[n \in 1..Len(ks) |-> <<ks[n], CorrectionOf(ks[n])>>] :
        ks \in DistinctListsUpTo(KeyPool, MaxEntries)}

MaxCellLen == 3

MaxPatterns == 2

CellAlphabet == {"a", "b", " "}

\* Candidate patterns.
PatternPool ==
    { <<"a">>, <<"B">>, <<"a"," ","b">>, <<"a"," ","-"," ","b">> }

ExtractPrepositions == {{}, {<<"b">>}}

MaxColumns == 2

\* Row labels of the two frames.
RowLabels == {0, 1}

ColumnNames == {<<"A">>, <<"B">>}

\* Frames to fill: any columns, any cell a value or missing.
TargetFrames ==
    UNION {[cols -> [RowLabels -> {NaN, <<"x">>}]] : cols \in SUBSET ColumnNames}

\* Frames to fill from.
FillerFrames ==
    { <<>>,
      (<<"A">> :> (0 :> <<"y">> @@ 1 :> NaN)),
      (<<"B">> :> (0 :> <<"y">> @@ 1 :> <<"y">>)),
      (<<"A">> :> (0 :> <<"y">> @@ 1 :> <<"z">>)) @@
          (<<"B">> :> (0 :> NaN @@ 1 :> <<"y">>)) }

RECURSIVE ListsUpTo(_, _)
\* Every list of at most n elements of the pool.
ListsUpTo(pool, n) ==
    IF n = 0 THEN {<<>>}
    ELSE LET shorter == ListsUpTo(pool, n - 1)
         IN  shorter \cup
             UNION {{Append(ks, key) : key \in pool} : ks \in shorter}

MaxKeys == 2

MaxAliases == 1

\* Candidate canonical keys.
CanonicalPool == { <<"A">>, <<"a">>, <<"b","b">> }

\* Candidate aliases.
AliasPool == { <<"a">>, <<"B","B">>, <<"c">> }

RECURSIVE WithAliases(_, _)
\* Every way to give the first n keys of a list a list of aliases.
WithAliases(ks, n) ==
    IF n = 0 THEN {<<>>}
    ELSE UNION {{Append(entries, <<ks[n], values>>) :
                    values \in DistinctListsUpTo(AliasPool, MaxAliases)} :
                   entries \in WithAliases(ks, n - 1)}

AliasDictionaries ==
    UNION {WithAliases(ks, Len(ks)) :
              ks \in DistinctListsUpTo(CanonicalPool, MaxKeys)}

MaxFoldLen == 3

RECURSIVE StrsUpTo(_, _)
\* Every str of at most n characters of the alphabet.
StrsUpTo(alphabet, n) ==
    IF n = 0 THEN {<<>>}
    ELSE LET shorter == StrsUpTo(alphabet, n - 1)
         IN  shorter \cup {Append(s, c) : s \in shorter, c \in alphabet}

FoldAlphabet == {"a", "A", "aacute", "ntilde", "dsC", "ccedilla", "0"}

ElevenProtected ==
    <<"ntilde", "udiaeresis", "degree", "ordm", "aacute", "cyr",
      "acute", "dsC", "Ntilde", "Udiaeresis", "ccedilla">>

PreAlphabet == {"c", "d", "r", "dsC", " ", ".", "-", "/", "tab"}

PrepositionSets ==
    {{}, {<<"c">>}, {<<"d">>, <<"c">>}, {<<"d","o","c","t","o","r">>}}

ProtectedLists ==
    {DefaultProtected, <<>>, <<"ntilde", "0">>, <<"degree", "ntilde">>,
     ElevenProtected}

-----------------------------------------------------------------------------
(* Behaviours of remove_accents: one call, then a call on its own result *)

FillIdle ==
    /\ df = <<>>
    /\ df_passed = <<>>
    /\ df2 = <<>>
    /\ target_columns = <<>>
    /\ filler_columns = <<>>
    /\ pair = 0
    /\ error = ""

PairIdle ==
    /\ input_dict = <<>>
    /\ sort_keys = FALSE
    /\ output_dict = <<>>
    /\ output_other = <<>>

ExtractIdle ==
    /\ patterns = <<>>
    /\ composed = FALSE
    /\ compiled_patterns = <<>>
    /\ searched = 0
    /\ target = NaN
    /\ raised = ""

CorrectIdle ==
    /\ street_name = <<>>
    /\ misspellings = <<>>
    /\ sorted_misspellings = <<>>
    /\ words = <<>>
    /\ corrected_words = <<>>
    /\ i = 0
    /\ found = FALSE
    /\ misspelled = <<>>
    /\ corrected = <<>>

PreIdle ==
    /\ text = <<>>
    /\ ignore_prepositions = {}
    /\ processed_text = <<>>
    /\ processed_plain = <<>>

FoldIdle ==
    /\ input_str = <<>>
    /\ protected_chars = <<>>
    /\ only_ascii = <<>>
    /\ refolded = <<>>

InitFold ==
    /\ pc = "fold_call"
    /\ input_str \in StrsUpTo(FoldAlphabet, MaxFoldLen)
    /\ protected_chars \in ProtectedLists
    /\ only_ascii = <<>>
    /\ refolded = <<>>
    /\ PreIdle
    /\ CorrectIdle
    /\ ExtractIdle
    /\ PairIdle
    /\ FillIdle

Fold ==
    /\ pc = "fold_call"
    /\ only_ascii' = remove_accents(input_str, protected_chars)
    /\ pc' = "fold_return"
    /\ UNCHANGED <<input_str, protected_chars, refolded, preVars, csVars, exVars, pairVars,
                   fillVars>>

Refold ==
    /\ pc = "fold_return"
    /\ refolded' = remove_accents(only_ascii, protected_chars)
    /\ pc' = "fold_again"
    /\ UNCHANGED <<input_str, protected_chars, only_ascii, preVars, csVars, exVars, pairVars,
                   fillVars>>

NextFold == Fold \/ Refold

SpecFold == InitFold /\ [][NextFold]_vars

-----------------------------------------------------------------------------
(* Claims about remove_accents *)

\* C5: remove_accents is idempotent with the default protected characters:
\* applied to its own result it returns that result.
C5_FoldIdempotent ==
    (pc = "fold_again" /\ protected_chars = DefaultProtected)
        => refolded = only_ascii

\* What one character of the lowercased input becomes when the protected
\* characters are kept and everything else is folded to ASCII.
FoldedChar(c, prot) ==
    IF c \in Range(prot) THEN <<c>> ELSE EncodeAscii(Nfkd(c))

\* C6: for every protected list, every protected character of the lowercased
\* input is in the output where it was, and no placeholder text is left: the
\* output is the character-by-character fold of the lowercased input.
C6_ProtectedRestored ==
    pc = "fold_return"
        => only_ascii =
              Concat([k \in 1..Len(input_str) |->
                         FoldedChar(Lower(input_str[k]), protected_chars)])

AsciiLetters == LowerLetters \cup UpperLetters

LettersAndProtected(s) ==
    \A k \in 1..Len(s) : s[k] \in AsciiLetters \cup Range(DefaultProtected)

\* C7: a string of ASCII letters and default protected characters comes back
\* with the letters lowercased, the protected characters in place, and nothing
\* added or dropped.
C7_LettersAndProtectedKept ==
    (/\ pc = "fold_return"
     /\ protected_chars = DefaultProtected
     /\ LettersAndProtected(input_str))
        => only_ascii = LowerStr(input_str)

C7_Witness ==
    /\ pc = "fold_return"
    /\ protected_chars = DefaultProtected
    /\ LettersAndProtected(input_str)
    /\ \E j, k \in 1..Len(input_str) :
          /\ input_str[j] \in UpperLetters
          /\ input_str[k] \in Range(DefaultProtected)
    /\ only_ascii # input_str

-----------------------------------------------------------------------------
(* Behaviours of preprocess_text: one call with the prepositions, one without *)

InitPreprocess ==
    /\ pc = "preprocess_call"
    /\ text \in StrsUpTo(PreAlphabet, MaxTextLen)
    /\ ignore_prepositions \in PrepositionSets
    /\ processed_text = <<>>
    /\ processed_plain = <<>>
    /\ FoldIdle
    /\ CorrectIdle
    /\ ExtractIdle
    /\ PairIdle
    /\ FillIdle

Preprocess ==
    /\ pc = "preprocess_call"
    /\ processed_text' = preprocess_text(text, ignore_prepositions)
    /\ pc' = "preprocess_return"
    /\ UNCHANGED <<text, ignore_prepositions, processed_plain, foldVars, csVars,
                   exVars, pairVars, fillVars>>

PreprocessPlain ==
    /\ pc = "preprocess_return"
    /\ processed_plain' = preprocess_text(text, {})
    /\ pc' = "preprocess_plain"
    /\ UNCHANGED <<text, ignore_prepositions, processed_text, foldVars, csVars,
                   exVars, pairVars, fillVars>>

NextPreprocess == Preprocess \/ PreprocessPlain

SpecPreprocess == InitPreprocess /\ [][NextPreprocess]_vars

-----------------------------------------------------------------------------
(* Behaviours of correct_spelling: the scan loop, one iteration per step *)

InitCorrect ==
    /\ pc = "correct_call"
    /\ street_name \in StrsUpTo(StreetAlphabet, MaxStreetLen)
    /\ misspellings \in Dictionaries
    /\ sorted_misspellings = <<>>
    /\ words = <<>>
    /\ corrected_words = <<>>
    /\ i = 0
    /\ found = FALSE
    /\ misspelled = <<>>
    /\ corrected = <<>>
    /\ FoldIdle
    /\ PreIdle
    /\ ExtractIdle
    /\ PairIdle
    /\ FillIdle

\* Lines 33-46
Tokenize ==
    /\ pc = "correct_call"
    /\ sorted_misspellings' = SortedByKeyLength(misspellings)
    /\ words' = FindAll(NormalizeStreet(street_name))
    /\ corrected_words' = <<>>
    /\ i' = 0
    /\ pc' = "correct_scan"
    /\ UNCHANGED <<street_name, misspellings, found, misspelled, corrected,
                   foldVars, preVars, exVars, pairVars, fillVars>>

\* Lines 49-63: one iteration of the scan loop.  The key search stops at the
\* first entry of the sorted list that matches at the cursor; without a match
\* the token at the cursor is emitted.
ScanIteration ==
    /\ pc = "correct_scan"
    /\ i < Len(words)
    /\ Len(corrected_words) < MaxEmitted
    /\ LET hits == MatchingEntries(sorted_misspellings, words, i)
       IN  IF hits # {}
           THEN LET entry == sorted_misspellings[CHOOSE n \in hits :
                                                    \A m \in hits : n <= m]
                IN  /\ corrected_words' = Append(corrected_words, entry[2])
                    /\ i' = Advance(i, entry[1])
                    /\ misspelled' = entry[1]
                    /\ found' = TRUE
           ELSE /\ corrected_words' = Append(corrected_words, words[i + 1])
                /\ i' = i + 1
                /\ misspelled' =
                      IF sorted_misspellings = <<>> THEN misspelled
                      ELSE sorted_misspellings[Len(sorted_misspellings)][1]
                /\ found' = FALSE
    /\ UNCHANGED <<pc, street_name, misspellings, sorted_misspellings, words,
                   corrected, foldVars, preVars, exVars, pairVars, fillVars>>

\* Line 65
ReturnCorrected ==
    /\ pc = "correct_scan"
    /\ i >= Len(words)
    /\ corrected' = Join(corrected_words)
    /\ pc' = "correct_return"
    /\ UNCHANGED <<street_name, misspellings, sorted_misspellings, words,
                   corrected_words, i, found, misspelled, foldVars, preVars,
                   exVars, pairVars, fillVars>>

NextCorrect == Tokenize \/ ScanIteration \/ ReturnCorrected

SpecCorrect == InitCorrect /\ [][NextCorrect]_vars

-----------------------------------------------------------------------------
(* Behaviours of extract_and_store_patterns on one row of the frame *)

InitExtract ==
    /\ pc = "extract_call"
    /\ patterns \in DistinctListsUpTo(PatternPool, MaxPatterns)
    /\ composed \in BOOLEAN
    /\ ignore_prepositions \in ExtractPrepositions
    /\ text \in StrsUpTo(CellAlphabet, MaxCellLen) \cup {NaN}
    /\ compiled_patterns = <<>>
    /\ searched = 0
    /\ target = NaN
    /\ raised = ""
    /\ processed_text = <<>>
    /\ processed_plain = <<>>
    /\ FoldIdle
    /\ CorrectIdle
    /\ PairIdle
    /\ FillIdle

\* Lines 78-90
CompilePatterns ==
    /\ pc = "extract_call"
    /\ compiled_patterns' =
          CompileFrom(PatternToFullName(patterns, 1, <<>>), 1, composed,
                      ignore_prepositions, <<>>)
    /\ pc' = "extract_compiled"
    /\ UNCHANGED <<patterns, composed, searched, target, raised, preVars,
                   foldVars, csVars, pairVars, fillVars>>

\* Lines 92-94, 111-114: find_earliest_pattern on a missing cell
ApplyToMissing ==
    /\ pc = "extract_compiled"
    /\ IsNa(text)
    /\ target' = UpperIfStr(NaN)
    /\ pc' = "extract_applied"
    /\ UNCHANGED <<patterns, composed, compiled_patterns, searched, raised,
                   preVars, foldVars, csVars, pairVars, fillVars>>

\* Lines 96-107, 111-114: find_earliest_pattern on a str.  (On np.nan line 96
\* raises: a float has no lower().)
ApplyToText ==
    /\ pc = "extract_compiled"
    /\ ~IsNa(text)
    /\ IF text = NaN
       THEN /\ raised' = "AttributeError"
            /\ UNCHANGED <<processed_text, searched, target>>
       ELSE /\ processed_text' = preprocess_text(text, ignore_prepositions)
            /\ searched' = Len(compiled_patterns)
            /\ target' = UpperIfStr(EarliestFrom(compiled_patterns,
                                                 processed_text', 1, None, NaN))
            /\ UNCHANGED raised
    /\ pc' = "extract_applied"
    /\ UNCHANGED <<patterns, composed, compiled_patterns, text,
                   ignore_prepositions, processed_plain, foldVars, csVars,
                   pairVars, fillVars>>

NextExtract == CompilePatterns \/ ApplyToMissing \/ ApplyToText

SpecExtract == InitExtract /\ [][NextExtract]_vars

-----------------------------------------------------------------------------
(* Behaviours of pair_values_to_key *)

InitPair ==
    /\ pc = "pair_call"
    /\ input_dict \in AliasDictionaries
    /\ sort_keys \in BOOLEAN
    /\ output_dict = <<>>
    /\ output_other = <<>>
    /\ FoldIdle
    /\ PreIdle
    /\ CorrectIdle
    /\ ExtractIdle
    /\ FillIdle

\* Lines 136-148
PairValues ==
    /\ pc = "pair_call"
    /\ output_dict' = pair_values_to_key(input_dict, sort_keys)
    /\ pc' = "pair_return"
    /\ UNCHANGED <<input_dict, sort_keys, output_other, foldVars, preVars,
                   csVars, exVars, fillVars>>

\* The same call with the other setting of sort_keys
PairValuesOther ==
    /\ pc = "pair_return"
    /\ output_other' = pair_values_to_key(input_dict, ~sort_keys)
    /\ pc' = "pair_other"
    /\ UNCHANGED <<input_dict, sort_keys, output_dict, foldVars, preVars,
                   csVars, exVars, fillVars>>

NextPair == PairValues \/ PairValuesOther

SpecPair == InitPair /\ [][NextPair]_vars

-----------------------------------------------------------------------------
(* Behaviours of fill_na_df *)

InitFill ==
    /\ pc = "fill_call"
    /\ df \in TargetFrames
    /\ df_passed = df
    /\ df2 \in FillerFrames
    /\ target_columns \in ListsUpTo(ColumnNames, MaxColumns)
    /\ filler_columns \in ListsUpTo(ColumnNames, MaxColumns) \cup {NoColumns}
    /\ pair = 0
    /\ error = ""
    /\ FoldIdle
    /\ PreIdle
    /\ CorrectIdle
    /\ ExtractIdle
    /\ PairIdle

\* Lines 175-181
CheckLengths ==
    /\ pc = "fill_call"
    /\ filler_columns' =
          IF filler_columns = NoColumns THEN target_columns ELSE filler_columns
    /\ IF Len(target_columns) # Len(filler_columns')
       THEN /\ error' = "ValueError"
            /\ pc' = "fill_raised"
            /\ UNCHANGED pair
       ELSE /\ pair' = 1
            /\ pc' = "fill_loop"
            /\ UNCHANGED error
    /\ UNCHANGED <<df, df_passed, df2, target_columns, foldVars, preVars,
                   csVars, exVars, pairVars>>

\* Lines 183-194: one pass of the loop over the zipped column lists
FillPair ==
    /\ pc = "fill_loop"
    /\ pair <= Len(target_columns)
    /\ LET target_col == target_columns[pair]
           filler_col == filler_columns[pair]
       IN  IF target_col \notin Columns(df) \/ filler_col \notin Columns(df2)
           THEN /\ error' = "ValueError"
                /\ pc' = "fill_raised"
                /\ UNCHANGED <<df, pair>>
           ELSE /\ df' = [df EXCEPT ![target_col] =
                                FilledColumn(df, df2, target_col, filler_col)]
                /\ pair' = pair + 1
                /\ UNCHANGED <<pc, error>>
    /\ UNCHANGED <<df_passed, df2, target_columns, filler_columns, foldVars,
                   preVars, csVars, exVars, pairVars>>

\* Line 196
ReturnFilled ==
    /\ pc = "fill_loop"
    /\ pair > Len(target_columns)
    /\ pc' = "fill_return"
    /\ UNCHANGED <<fillVars, foldVars, preVars, csVars, exVars, pairVars>>

NextFill == CheckLengths \/ FillPair \/ ReturnFilled

SpecFill == InitFill /\ [][NextFill]_vars

-----------------------------------------------------------------------------
(* Claims about fill_na_df *)

\* The column lists differ in length, or a listed column is not in its frame
\* (filler_columns is the list in use once the lengths were compared).
InvalidColumns ==
    \/ Len(target_columns) # Len(filler_columns)
    \/ \E n \in 1..Len(target_columns) :
          target_columns[n] \notin Columns(df_passed)
    \/ \E n \in 1..Len(filler_columns) :
          filler_columns[n] \notin Columns(df2)

FillEnded == pc \in {"fill_raised", "fill_return"}

\* C13 (first half): ValueError is raised exactly when the column lists are
\* invalid.
RaisesOnInvalidColumns ==
    FillEnded => (error = "ValueError" <=> InvalidColumns)

\* C13: ValueError is raised when the column lists are invalid, and when it
\* is raised no cell of df has been modified.
C13_RaisesBeforeFilling ==
    /\ RaisesOnInvalidColumns
    /\ pc = "fill_raised" => df = df_passed


\* The registrations of input_dict: <<n, k>> is the canonical key of entry n
\* when k = 0 and its k-th alias otherwise.
Registrations ==
    UNION {{<<n, k>> : k \in 0..Len(input_dict[n][2])} :
              n \in 1..Len(input_dict)}

RegisteredName(r) ==
    LowerStr(IF r[2] = 0 THEN input_dict[r[1]][1]
                         ELSE input_dict[r[1]][2][r[2]])

\* r is registered before q
Before(r, q) == r[1] < q[1] \/ (r[1] = q[1] /\ r[2] < q[2])

\* The canonical key of the last registration of a name
LastCanonical(name) ==
    LET last == CHOOSE r \in Registrations :
                    /\ RegisteredName(r) = name
                    /\ \A q \in Registrations :
                          RegisteredName(q) = name => (q = r \/ Before(q, r))
    IN  input_dict[last[1]][1]

Items(d) == {d[n] : n \in 1..Len(d)}

\* C11: the lookup's names are exactly the lowercased canonical keys and
\* aliases, each once, each mapped to the canonical key of its last
\* registration (entries in input order, a key before its aliases); the
\* other setting of sort_keys gives the same mapping.
C11_LastRegistrationWins ==
    pc \in {"pair_return", "pair_other"}
        => /\ {output_dict[n][1] : n \in 1..Len(output_dict)}
                 = {RegisteredName(r) : r \in Registrations}
           /\ \A m, n \in 1..Len(output_dict) :
                 output_dict[m][1] = output_dict[n][1] => m = n
           /\ \A n \in 1..Len(output_dict) :
                 output_dict[n][2] = LastCanonical(output_dict[n][1])
           /\ pc = "pair_other" => Items(output_other) = Items(output_dict)

C11_Witness ==
    /\ pc = "pair_other"
    /\ output_other # output_dict
    /\ \E r, q \in Registrations :
          /\ Before(r, q)
          /\ RegisteredName(r) = RegisteredName(q)
          /\ input_dict[r[1]][1] # input_dict[q[1]][1]
          /\ <<RegisteredName(q), input_dict[q[1]][1]>> \in Items(output_dict)

-----------------------------------------------------------------------------
(* Claims about correct_spelling *)

\* C3: every iteration of the scan loop advances the cursor by at least one
\* token (so the loop runs at most once per input token and terminates).
C3_CursorAdvances ==
    [][(pc = "correct_scan" /\ i < Len(words)) => i' > i]_vars

\* The cursor position at which the last key search ran.
SearchedAt == i - MisspelledLen(misspelled)

\* C4: the key replaced at a cursor position has the largest token count among
\* the dictionary keys that match the token window starting there, and it is
\* that key's correction that is emitted.
C4_LongestKeyWins ==
    (pc \in {"correct_scan", "correct_return"} /\ found)
        => /\ KeyMatches(misspelled, words, SearchedAt)
           /\ \A n \in 1..Len(misspellings) :
                 KeyMatches(misspellings[n][1], words, SearchedAt)
                     => /\ MisspelledLen(misspellings[n][1]) <= MisspelledLen(misspelled)
                        /\ misspellings[n][1] = misspelled
                              => corrected_words[Len(corrected_words)]
                                     = misspellings[n][2]

\* A key and a longer key that starts with the same tokens both match at the
\* cursor, the shorter one comes first in the dictionary, and the longer one
\* was replaced.
C4_Witness ==
    /\ pc = "correct_scan"
    /\ found
    /\ \E m, n \in 1..Len(misspellings) :
          /\ m < n
          /\ misspellings[n][1] = misspelled
          /\ KeyMatches(misspellings[m][1], words, SearchedAt)
          /\ 0 < MisspelledLen(misspellings[m][1])
          /\ MisspelledLen(misspellings[m][1]) < MisspelledLen(misspelled)
          /\ corrected_words[Len(corrected_words)] = misspellings[n][2]

RECURSIVE Accounted(_, _)
\* The items from the j-th on account for the tokens after the first p, each
\* token once: an item is the next token unchanged or the correction of a key
\* that matches the window of tokens starting there.
Accounted(p, j) ==
    IF j > Len(corrected_words) THEN p = Len(words)
    ELSE \/ /\ p < Len(words)
            /\ corrected_words[j] = words[p + 1]
            /\ Accounted(p + 1, j + 1)
         \/ \E n \in 1..Len(misspellings) :
               /\ MisspelledLen(misspellings[n][1]) >= 1
               /\ KeyMatches(misspellings[n][1], words, p)
               /\ corrected_words[j] = misspellings[n][2]
               /\ Accounted(p + MisspelledLen(misspellings[n][1]), j + 1)

\* The items separated by single spaces
SpaceJoined(items) ==
    IF items = <<>> THEN <<>>
    ELSE items[1] \o Concat([n \in 1..(Len(items) - 1) |-> <<" ">> \o items[n + 1]])

\* C12: when correct_spelling returns, the output is the single-space join of
\* the emitted items, and the items account for every token exactly once, in
\* order: a token is emitted unchanged or lies in one replaced window that
\* matches a dictionary key.
C12_TokensAccountedOnce ==
    pc = "correct_return"
        => /\ corrected = SpaceJoined(corrected_words)
           /\ Accounted(0, 1)

C12_Witness ==
    /\ pc = "correct_return"
    /\ 0 < Len(corrected_words)
    /\ Len(corrected_words) < Len(words)
    /\ corrected # <<>>

\* A non-empty string of lowercase ASCII letters, digits, apostrophes,
\* hyphens, periods and single spaces
PlainKey(key) ==
    /\ key # <<>>
    /\ \A n \in 1..Len(key) :
          key[n] \in LowerLetters \cup Range(DigitChars) \cup {"'", "-", ".", " "}
    /\ \A n \in 1..(Len(key) - 1) : ~(key[n] = " " /\ key[n + 1] = " ")

\* C14: for a key of the dictionary that is a non-empty string of lowercase
\* ASCII letters, digits, apostrophes, hyphens, periods and single spaces,
\* correct_spelling of the key itself returns the correction registered for it.
C14_KeyItselfCorrected ==
    pc = "correct_return"
        => \A n \in 1..Len(misspellings) :
               (misspellings[n][1] = street_name /\ PlainKey(street_name))
                   => corrected = misspellings[n][2]

-----------------------------------------------------------------------------
(* Claims about extract_and_store_patterns *)

\* The part of a pattern in front of its first " - ", the whole pattern when
\* it holds none.
BeforeSeparator(pattern) ==
    LET cuts == {k \in 1..(Len(pattern) - 2) :
                    SubSeq(pattern, k, k + 2) = Separator}
    IN  IF cuts = {} THEN pattern
        ELSE SubSeq(pattern, 1, (CHOOSE k \in cuts : \A h \in cuts : k <= h) - 1)

\* The text a supplied pattern is matched by.
MatchKeyOf(pattern) ==
    preprocess_text(IF composed THEN BeforeSeparator(LowerStr(pattern))
                                ELSE LowerStr(pattern),
                    ignore_prepositions)

\* Offset of the first occurrence of a supplied pattern in the preprocessed
\* text of the row, None when it does not occur.
FirstOccurrence(pattern) == SearchStart(MatchKeyOf(pattern), processed_text)

Occurring == {n \in 1..Len(patterns) : FirstOccurrence(patterns[n]) # None}

AtSmallestOffset ==
    {n \in Occurring :
        \A m \in Occurring :
            FirstOccurrence(patterns[n]) <= FirstOccurrence(patterns[m])}

RowDone == pc = "extract_applied" /\ text # NaN

\* C1: when some pattern occurs in the preprocessed text, the label written is
\* that of a pattern whose first occurrence starts at the smallest offset among
\* the patterns that occur, whatever the order the patterns were declared in.
C1_EarliestOccurrenceWins ==
    (RowDone /\ Occurring # {})
        => \E n \in AtSmallestOffset : target = UpperStr(patterns[n])

C1_Witness ==
    /\ RowDone
    /\ \E m, n \in Occurring :
          /\ m < n
          /\ FirstOccurrence(patterns[n]) < FirstOccurrence(patterns[m])
          /\ target = UpperStr(patterns[n])
          /\ target # UpperStr(patterns[m])

\* C2: when several patterns have their first occurrence at the same smallest
\* offset, the label written is that of the one that comes first in the
\* pattern collection, also when two patterns share a match key.
C2_FirstDeclaredWinsTie ==
    (RowDone /\ Occurring # {})
        => target = UpperStr(patterns[CHOOSE n \in AtSmallestOffset :
                                         \A m \in AtSmallestOffset : n <= m])

\* C8: the match keys are the preprocessed patterns, cut in front of the first
\* " - " when composed is set and left whole otherwise; the label kept with a
\* key is a full original pattern of that key, and a label written to the row
\* is such a label upper-cased, its key occurring in the row's text.
C8_ComposedKeyAndLabel ==
    pc \in {"extract_compiled", "extract_applied"}
        => /\ \A n \in 1..Len(patterns) :
                 \E e \in 1..Len(compiled_patterns) :
                     compiled_patterns[e][1] = MatchKeyOf(patterns[n])
           /\ \A e \in 1..Len(compiled_patterns) :
                 \E n \in 1..Len(patterns) :
                     /\ compiled_patterns[e][1] = MatchKeyOf(patterns[n])
                     /\ compiled_patterns[e][2] = patterns[n]
           /\ (pc = "extract_applied" /\ target # NaN)
                 => \E e \in 1..Len(compiled_patterns) :
                        /\ target = UpperStr(compiled_patterns[e][2])
                        /\ SearchStart(compiled_patterns[e][1],
                                       processed_text) # None

C8_Witness ==
    /\ RowDone
    /\ composed
    /\ \E n \in 1..Len(patterns) :
          /\ BeforeSeparator(patterns[n]) # patterns[n]
          /\ target = UpperStr(patterns[n])
          /\ SearchStart(preprocess_text(LowerStr(patterns[n]),
                                         ignore_prepositions),
                         processed_text) = None

\* C9: a row ends with the missing marker or the upper-cased label of a
\* supplied pattern and never with an error; a missing cell gives the missing
\* marker and no search is made for it; a text no pattern occurs in gives the
\* missing marker.
C9_MissingOrLabel ==
    pc = "extract_applied"
        => /\ raised = ""
           /\ \/ target = NaN
              \/ \E n \in 1..Len(patterns) : target = UpperStr(patterns[n])
           /\ text = NaN => (target = NaN /\ searched = 0)
           /\ (text # NaN /\ Occurring = {}) => target = NaN

C9_Witness ==
    /\ pc = "extract_applied"
    /\ text = NaN
    /\ patterns # <<>>
    /\ target = NaN
    /\ searched = 0
    /\ raised = ""

-----------------------------------------------------------------------------
(* Claims about preprocess_text *)

\* C10: the tokens of preprocess_text(s, P) are the tokens of
\* preprocess_text(s, None) without those that belong to P, in the same order.
C10_PrepositionsOnlyRemoved ==
    pc = "preprocess_plain"
        => Split(processed_text) =
              SelectSeq(Split(processed_plain),
                        LAMBDA word : word \notin ignore_prepositions)

\* No '-', '.', '/', no whitespace but single spaces between tokens.
NormalForm(s) ==
    /\ \A n \in 1..Len(s) :
          /\ s[n] \notin {"-", ".", "/"}
          /\ IsSpace(s[n]) => s[n] = " "
    /\ s # <<>> => (s[1] # " " /\ s[Len(s)] # " ")
    /\ \A n \in 1..(Len(s) - 1) : ~(s[n] = " " /\ s[n + 1] = " ")

\* C15: the result of preprocess_text holds none of '-', '.', '/', has no
\* leading or trailing whitespace, and its tokens are one space apart.
C15_ResultInNormalForm ==
    /\ pc \in {"preprocess_return", "preprocess_plain"}
          => NormalForm(processed_text)
    /\ pc = "preprocess_plain" => NormalForm(processed_plain)

C15_Witness ==
    /\ pc = "preprocess_return"
    /\ \E n \in 1..Len(text) : text[n] \in {"-", ".", "/"}
    /\ \E n \in 1..Len(text) : IsSpace(text[n])
    /\ processed_text # <<>>

=============================================================================
